---- MODULE Spec2Model ----
(***************************************************************************)
(* Snort positions on an undirected graph, their moves and decomposition,  *)
(* the memoized canonical_form search over a shared transposition table,   *)
(* and the RwHashMap that backs the table.                                 *)
(***************************************************************************)
EXTENDS Integers, Sequences, FiniteSets, TLC

(***************************************************************************)
(* Bounds of the model.                                                    *)
(***************************************************************************)
\* Largest number of vertices of the graph a game starts from.
MaxVertices == 3

\* Number of canonical_form calls the callers make on the shared table.
MaxSearches == 2

\* Number of calls the threads make on the map.
MaxCalls == 4

\* Number of connect, add_vertex and remove_vertex calls made on a DirectedGraph.
MaxMutations == 4

\* The largest number of vertices of the graph a play with decompositions
\* starts from.
MaxReach == 4

(***************************************************************************)
(* The state.                                                              *)
(***************************************************************************)
\* The searches: the transposition table, each worker's stack of calls, what
\* each worker's last finished call returned, and the calls made so far.
VARIABLES grids, stack, returned, searches

\* The map: the HashMap, whether a write to it is under way, the RwLock,
\* each thread's call, the values inserted for each key since the last clear,
\* the last of them whose insert has returned, and the calls made so far.
VARIABLES hashmap, torn, lock, th, hist, done_idx, calls

\* The game: the current position, the graph it started from, and who has
\* moved on each vertex.
VARIABLES current, start_graph, moved

\* The calls on one position: the arguments of with_colors, whether it has
\* been called and what it returned, and the last call on the position made.
VARIABLES vertices_arg, graph_arg, with_colors_called, made, out

\* A DirectedGraph under its mutators: the graph, the flag of the last
\* connect of each ordered pair, the last call with what it returned, and
\* the calls that changed the graph so far.
VARIABLES dg, flags, dg_op, mutations

\* A play of Snort with the decompositions the search makes: the position
\* reached, the position the play started from, the moves made so far, and
\* the last step taken.
VARIABLES play, origin, plies, ply

search_vars == <<grids, stack, returned, searches>>

map_vars == <<hashmap, torn, lock, th, hist, done_idx, calls>>

game_vars == <<current, start_graph, moved>>

position_vars == <<vertices_arg, graph_arg, with_colors_called, made, out>>

digraph_vars == <<dg, flags, dg_op, mutations>>

play_vars == <<play, origin, plies, ply>>

vars == <<search_vars, map_vars, game_vars, position_vars, digraph_vars, play_vars>>

(***************************************************************************)
(* VertexColor (repr u8).                                                  *)
(***************************************************************************)
Empty == 0
TintLeft == 1
TintRight == 2
Taken == 3

VertexColor == {Empty, TintLeft, TintRight, Taken}

(***************************************************************************)
(* A Vec is kept as a sequence: the element at index i of the Vec is the   *)
(* element i + 1 of the sequence.                                          *)
(***************************************************************************)
\* vec![x; n]
RECURSIVE vec(_, _)
vec(x, n) == IF n <= 0 THEN << >> ELSE Append(vec(x, n - 1), x)

(***************************************************************************)
(* Graph: a size and a flattened size*size adjacency matrix.  The directed *)
(* operations are those of DirectedGraph; the undirected graph the Snort   *)
(* positions use connects both directions.                                 *)
(***************************************************************************)
empty(size) ==
    [size |-> size, adjacency_matrix |-> vec(FALSE, size * size)]

are_adjacent(g, out_vertex, in_vertex) ==
    g.adjacency_matrix[g.size * in_vertex + out_vertex + 1]

\* A connect that sets the flag of the opposite pair too.
connect_both(g, out_vertex, in_vertex, c) ==
    [g EXCEPT !.adjacency_matrix[g.size * in_vertex + out_vertex + 1] = c,
              !.adjacency_matrix[g.size * out_vertex + in_vertex + 1] = c]

connect(g, out_vertex, in_vertex, c) ==
    [g EXCEPT !.adjacency_matrix[g.size * in_vertex + out_vertex + 1] = c]

\* Graph::connect of graph::undirected: the edge is set in both directions.
undirected_connect(g, lhs_vertex, rhs_vertex, c) ==
    connect(connect(g, lhs_vertex, rhs_vertex, c), rhs_vertex, lhs_vertex, c)

\* AdjacentIter::next, run to exhaustion from idx.
RECURSIVE AdjacentIter(_, _, _)
AdjacentIter(g, vertex, idx) ==
    IF idx >= g.size THEN << >>
    ELSE IF are_adjacent(g, vertex, idx)
         THEN <<idx>> \o AdjacentIter(g, vertex, idx + 1)
         ELSE AdjacentIter(g, vertex, idx + 1)

adjacent_to(g, out_vertex) == AdjacentIter(g, out_vertex, 0)

\* EdgesIter::next, run to exhaustion from (u, v).
RECURSIVE EdgesIter(_, _, _)
EdgesIter(g, u, v) ==
    LET wrapped_u == IF u >= g.size THEN 0 ELSE u
        wrapped_v == IF u >= g.size THEN v + 1 ELSE v
    IN  IF wrapped_v >= g.size THEN << >>
        ELSE IF are_adjacent(g, wrapped_u, wrapped_v)
             THEN <<<<wrapped_u, wrapped_v>>>> \o EdgesIter(g, wrapped_u + 1, wrapped_v)
             ELSE EdgesIter(g, wrapped_u + 1, wrapped_v)

\* DirectedGraph::edges, collected.
graph_edges(g) == EdgesIter(g, 0, 0)

\* for in_v in self.vertices() { for out_v in self.vertices() { ... } } of
\* add_vertex, from (out_v, in_v) on.
RECURSIVE add_vertex_loop(_, _, _, _)
add_vertex_loop(self, new_graph, in_v, out_v) ==
    IF in_v >= self.size THEN new_graph
    ELSE IF out_v >= self.size THEN add_vertex_loop(self, new_graph, in_v + 1, 0)
    ELSE add_vertex_loop(self,
                         connect(new_graph, out_v, in_v, are_adjacent(self, out_v, in_v)),
                         in_v, out_v + 1)

add_vertex(self) == add_vertex_loop(self, empty(self.size + 1), 0, 0)

\* A skip that starts one vertex late.
skip_after(v, vertex_to_remove) == v + (IF v > vertex_to_remove THEN 1 ELSE 0)

\* v + (v >= vertex_to_remove) as usize
skip(v, vertex_to_remove) == v + (IF v >= vertex_to_remove THEN 1 ELSE 0)

\* The two loops over new_graph.vertices() of remove_vertex, from (out_v, in_v) on.
RECURSIVE remove_vertex_loop(_, _, _, _, _)
remove_vertex_loop(self, new_graph, vertex_to_remove, in_v, out_v) ==
    IF in_v >= new_graph.size THEN new_graph
    ELSE IF out_v >= new_graph.size
         THEN remove_vertex_loop(self, new_graph, vertex_to_remove, in_v + 1, 0)
    ELSE remove_vertex_loop(
             self,
             connect(new_graph, out_v, in_v,
                     are_adjacent(self, skip(out_v, vertex_to_remove),
                                  skip(in_v, vertex_to_remove))),
             vertex_to_remove, in_v, out_v + 1)

remove_vertex(self, vertex_to_remove) ==
    remove_vertex_loop(self, empty(self.size - 1), vertex_to_remove, 0, 0)

\* Graph::from_edges of the Graph trait.
RECURSIVE from_edges_loop(_, _, _)
from_edges_loop(graph, edges, i) ==
    IF i > Len(edges) THEN graph
    ELSE from_edges_loop(
             undirected_connect(graph, edges[i][1], edges[i][2], TRUE), edges, i + 1)

from_edges(size, edges) == from_edges_loop(empty(size), edges, 1)

(***************************************************************************)
(* Position: vertices (the colours, a Vec) and graph.                      *)
(***************************************************************************)
new(graph) ==
    [vertices |-> vec(Empty, graph.size), graph |-> graph]

\* Option<T>: None is the empty set, Some(x) the set of x alone.
None == {}

\* No call made yet on the position, and none on the DirectedGraph.
no_output == [op |-> "none", positions |-> << >>, game |-> None]

\* No step of a play taken yet.
no_ply == [op |-> "none", k |-> 0]

no_call ==
    [op |-> "none", out_vertex |-> 0, in_vertex |-> 0, adjacent |-> << >>, edges |-> << >>]

Some(x) == {x}

unwrap(option) == CHOOSE x \in option : TRUE

\* A with_colors that does not compare the sizes.
with_colors_unchecked(colors, graph) == Some([vertices |-> colors, graph |-> graph])

with_colors(colors, graph) ==
    IF Len(colors) # graph.size THEN None
    ELSE Some([vertices |-> colors, graph |-> graph])

\* Every vertex that is not Taken is open to both players.
RECURSIVE move_vertices_any_tint(_, _, _)
move_vertices_any_tint(self, own_tint_color, idx) ==
    IF idx >= Len(self.vertices) THEN << >>
    ELSE IF self.vertices[idx + 1] # Taken
         THEN <<idx>> \o move_vertices_any_tint(self, own_tint_color, idx + 1)
         ELSE move_vertices_any_tint(self, own_tint_color, idx + 1)

\* Left may move on every vertex that is not Taken, Right as in the code.
RECURSIVE move_vertices_left_anywhere(_, _, _)
move_vertices_left_anywhere(self, own_tint_color, idx) ==
    IF idx >= Len(self.vertices) THEN << >>
    ELSE IF self.vertices[idx + 1] = Empty
            \/ (own_tint_color = TintLeft /\ self.vertices[idx + 1] # Taken)
            \/ (own_tint_color = TintRight /\ self.vertices[idx + 1] = TintRight)
         THEN <<idx>> \o move_vertices_left_anywhere(self, own_tint_color, idx + 1)
         ELSE move_vertices_left_anywhere(self, own_tint_color, idx + 1)

\* The vertices where the player of own_tint_color can move, increasing.
RECURSIVE move_vertices(_, _, _)
move_vertices(self, own_tint_color, idx) ==
    IF idx >= Len(self.vertices) THEN << >>
    ELSE IF self.vertices[idx + 1] = own_tint_color \/ self.vertices[idx + 1] = Empty
         THEN <<idx>> \o move_vertices(self, own_tint_color, idx + 1)
         ELSE move_vertices(self, own_tint_color, idx + 1)

\* The loop over position.graph.vertices() that cuts nothing.
disconnect_all_nothing(graph, adjacent_vertex, v) == graph

\* for v in position.graph.vertices() { connect(v, adjacent_vertex, false) }
RECURSIVE disconnect_all(_, _, _)
disconnect_all(graph, adjacent_vertex, v) ==
    IF v >= graph.size THEN graph
    ELSE disconnect_all(
             undirected_connect(graph, v, adjacent_vertex, FALSE), adjacent_vertex, v + 1)

\* The loop body without the tinting: the edge is cut and nothing else.
tint_adjacent_cut_only(position, own_tint_color, move_vertex, adjacent_vertex) ==
    [position EXCEPT
        !.graph = undirected_connect(@, move_vertex, adjacent_vertex, FALSE)]

\* The loop body that tints every neighbour in the mover's colour.
tint_adjacent_always_own(position, own_tint_color, move_vertex, adjacent_vertex) ==
    [position EXCEPT
        !.graph = undirected_connect(@, move_vertex, adjacent_vertex, FALSE),
        !.vertices[adjacent_vertex + 1] = own_tint_color]

\* The loop body that marks an opponent's neighbour Taken and keeps its edges.
tint_adjacent_keeps_edges(position, own_tint_color, move_vertex, adjacent_vertex) ==
    LET disconnected ==
            [position EXCEPT
                !.graph = undirected_connect(@, move_vertex, adjacent_vertex, FALSE)]
    IN  IF adjacent_vertex # move_vertex
        THEN IF disconnected.vertices[adjacent_vertex + 1] = own_tint_color
                \/ disconnected.vertices[adjacent_vertex + 1] = Empty
             THEN [disconnected EXCEPT !.vertices[adjacent_vertex + 1] = own_tint_color]
             ELSE [disconnected EXCEPT !.vertices[adjacent_vertex + 1] = Taken]
        ELSE disconnected

\* The body of the loop over self.graph.adjacent_to(move_vertex).
tint_adjacent(position, own_tint_color, move_vertex, adjacent_vertex) ==
    LET disconnected ==
            [position EXCEPT
                !.graph = undirected_connect(@, move_vertex, adjacent_vertex, FALSE)]
    IN  IF adjacent_vertex # move_vertex
        THEN IF disconnected.vertices[adjacent_vertex + 1] = own_tint_color
                \/ disconnected.vertices[adjacent_vertex + 1] = Empty
             THEN [disconnected EXCEPT !.vertices[adjacent_vertex + 1] = own_tint_color]
             ELSE [disconnected EXCEPT
                      !.vertices[adjacent_vertex + 1] = Taken,
                      !.graph = disconnect_all(@, adjacent_vertex, 0)]
        ELSE disconnected

RECURSIVE tint_loop(_, _, _, _, _)
tint_loop(position, own_tint_color, move_vertex, adjacent, i) ==
    IF i > Len(adjacent) THEN position
    ELSE tint_loop(
             tint_adjacent(position, own_tint_color, move_vertex, adjacent[i]),
             own_tint_color, move_vertex, adjacent, i + 1)

\* A move that leaves the vertex moved on as it was.
move_on_not_taken(self, own_tint_color, move_vertex) ==
    tint_loop(self, own_tint_color, move_vertex,
              adjacent_to(self.graph, move_vertex), 1)

\* The successor of self for a move on move_vertex.
move_on(self, own_tint_color, move_vertex) ==
    tint_loop([self EXCEPT !.vertices[move_vertex + 1] = Taken],
              own_tint_color, move_vertex,
              adjacent_to(self.graph, move_vertex), 1)

\* The loop that puts each successor in front of the earlier ones.
RECURSIVE moves_loop_in_front(_, _, _, _, _)
moves_loop_in_front(self, own_tint_color, to_move, k, moves) ==
    IF k > Len(to_move) THEN moves
    ELSE moves_loop_in_front(self, own_tint_color, to_move, k + 1,
                             <<move_on(self, own_tint_color, to_move[k])>> \o moves)

\* for move_vertex in move_vertices { ... moves.push(position) }
RECURSIVE moves_loop(_, _, _, _, _)
moves_loop(self, own_tint_color, to_move, k, moves) ==
    IF k > Len(to_move) THEN moves
    ELSE moves_loop(self, own_tint_color, to_move, k + 1,
                    Append(moves, move_on(self, own_tint_color, to_move[k])))

moves_for(self, own_tint_color) ==
    moves_loop(self, own_tint_color, move_vertices(self, own_tint_color, 0), 1, << >>)

left_moves(self) == moves_for(self, TintLeft)

right_moves(self) == moves_for(self, TintRight)

(***************************************************************************)
(* Decomposition into connected components.                                *)
(***************************************************************************)
\* for u in self.graph.adjacent_to(v) { if !visited[u] { ... } }
RECURSIVE bfs_visit(_, _, _)
bfs_visit(st, adjacent, i) ==
    IF i > Len(adjacent) THEN st
    ELSE LET u == adjacent[i]
         IN  IF ~st.visited[u + 1]
             THEN bfs_visit([st EXCEPT !.visited[u + 1] = TRUE, !.q = Append(@, u)],
                            adjacent, i + 1)
             ELSE bfs_visit(st, adjacent, i + 1)

\* while let Some(v) = q.pop_front() { ... }
RECURSIVE bfs_loop(_, _)
bfs_loop(self, st) ==
    IF st.q = << >> THEN st
    ELSE LET v == Head(st.q)
             popped == [st EXCEPT !.q = Tail(@),
                                  !.vertices_to_take = Append(@, v)]
         IN  bfs_loop(self, bfs_visit(popped, adjacent_to(self.graph, v), 1))

\* vertices_to_take.iter().position(|x| *x == old_u): None is 0 here, Some(k) is k + 1.
RECURSIVE position_of(_, _, _)
position_of(vertices_to_take, old_u, i) ==
    IF i > Len(vertices_to_take) THEN 0
    ELSE IF vertices_to_take[i] = old_u THEN i
         ELSE position_of(vertices_to_take, old_u, i + 1)

\* The loop that connects nothing.
bfs_connect_no_edge(new_graph, vertices_to_take, new_v, adjacent, i) == new_graph

\* for old_u in self.graph.adjacent_to(*old_v) { ... new_graph.connect(new_v, new_u, true) }
RECURSIVE bfs_connect(_, _, _, _, _)
bfs_connect(new_graph, vertices_to_take, new_v, adjacent, i) ==
    IF i > Len(adjacent) THEN new_graph
    ELSE LET found == position_of(vertices_to_take, adjacent[i], 1)
         IN  bfs_connect(
                 IF found # 0
                 THEN undirected_connect(new_graph, new_v, found - 1, TRUE)
                 ELSE new_graph,
                 vertices_to_take, new_v, adjacent, i + 1)

\* for (new_v, old_v) in vertices_to_take.iter().enumerate() { ... }
RECURSIVE bfs_graph(_, _, _, _)
bfs_graph(self, new_graph, vertices_to_take, k) ==
    IF k > Len(vertices_to_take) THEN new_graph
    ELSE bfs_graph(self,
                   bfs_connect(new_graph, vertices_to_take, k - 1,
                               adjacent_to(self.graph, vertices_to_take[k]), 1),
                   vertices_to_take, k + 1)

\* The loop that pushes Empty for every vertex.
bfs_vertices_all_empty(self, vertices_to_take, k, new_vertices) ==
    vec(Empty, Len(vertices_to_take))

\* for v in &vertices_to_take { new_vertices.push(self.vertices[*v]) }
RECURSIVE bfs_vertices(_, _, _, _)
bfs_vertices(self, vertices_to_take, k, new_vertices) ==
    IF k > Len(vertices_to_take) THEN new_vertices
    ELSE bfs_vertices(self, vertices_to_take, k + 1,
                      Append(new_vertices, self.vertices[vertices_to_take[k] + 1]))

\* The component of v and the visited flags after the search.
bfs(self, visited, v) ==
    LET st == bfs_loop(self, [q |-> <<v>>,
                              visited |-> [visited EXCEPT ![v + 1] = TRUE],
                              vertices_to_take |-> << >>])
        take == st.vertices_to_take
    IN  [component |->
             [vertices |-> bfs_vertices(self, take, 1, << >>),
              graph |-> bfs_graph(self, empty(Len(take)), take, 1)],
         visited |-> st.visited]

RECURSIVE decompositions_loop(_, _, _, _)
decompositions_loop(self, visited, res, v) ==
    IF v >= self.graph.size THEN res
    ELSE IF self.vertices[v + 1] # Taken /\ ~visited[v + 1]
         THEN LET found == bfs(self, visited, v)
              IN  decompositions_loop(self, found.visited,
                                      Append(res, found.component), v + 1)
         ELSE decompositions_loop(self, visited, res, v + 1)

decompositions(self) ==
    decompositions_loop(self, vec(FALSE, Len(self.vertices)), << >>, 0)

(***************************************************************************)
(* Game values.  A value is kept as its canonical form, the record of its  *)
(* canonical sets of Left and Right options, so that two values are equal  *)
(* exactly when their canonical forms are identical.                       *)
(***************************************************************************)
Form(left, right) == [L |-> left, R |-> right]

construct_integer_zero == Form({}, {})

\* G >= H: no Right option of G is <= H and no Left option of H is >= G.
RECURSIVE geq(_, _)
geq(G, H) ==
    /\ \A gr \in G.R : ~geq(H, gr)
    /\ \A hl \in H.L : ~geq(hl, G)

\* One round of dominated-option elimination and reversible-option bypass.
eliminate_dominated(G) ==
    Form({g \in G.L : ~\E g2 \in G.L : g2 # g /\ geq(g2, g)},
         {h \in G.R : ~\E h2 \in G.R : h2 # h /\ geq(h, h2)})

bypass_reversible(G) ==
    LET revL(g) == {gr \in g.R : geq(G, gr)}
        revR(h) == {hl \in h.L : geq(hl, G)}
    IN  Form(UNION {IF revL(g) = {} THEN {g}
                    ELSE (CHOOSE gr \in revL(g) : TRUE).L : g \in G.L},
             UNION {IF revR(h) = {} THEN {h}
                    ELSE (CHOOSE hl \in revR(h) : TRUE).R : h \in G.R})

\* The canonicalizer: repeat both steps to a fixpoint.
RECURSIVE canonicalize(_)
canonicalize(G) ==
    LET next == bypass_reversible(eliminate_dominated(G))
    IN  IF next = G THEN G ELSE canonicalize(next)

\* Moves { left, right } of canonical forms, given as sequences.
construct_from_moves(left, right) ==
    canonicalize(Form({left[i] : i \in DOMAIN left}, {right[i] : i \in DOMAIN right}))

\* Disjunctive sum.
RECURSIVE construct_sum(_, _)
construct_sum(G, H) ==
    canonicalize(
        Form({construct_sum(gl, H) : gl \in G.L} \cup {construct_sum(G, hl) : hl \in H.L},
             {construct_sum(gr, H) : gr \in G.R} \cup {construct_sum(G, hr) : hr \in H.R}))

(***************************************************************************)
(* The transposition table: a HashMap kept as its set of <<key, value>>    *)
(* entries, behind the RwHashMap operations.                               *)
(***************************************************************************)
\* A lookup whose key comparison leaves the colours out.
get_by_graph(map, key) == {e[2] : e \in {e \in map : e[1].graph = key.graph}}

\* HashMap::get(key).cloned()
get(map, key) == {e[2] : e \in {e \in map : e[1] = key}}

\* An insert that keeps the entry an equal key already has.
insert_beside(map, key, value) == map \cup {<<key, value>>}

\* HashMap::insert(key, value): the entry of an equal key is replaced.
insert(map, key, value) == {e \in map : e[1] # key} \cup {<<key, value>>}

len(map) == Cardinality(map)

clear(map) == {}

(***************************************************************************)
(* RwHashMap: the HashMap behind an RwLock, called by several threads.     *)
(* A call takes the lock, acts on the HashMap and drops the lock.  A write *)
(* to the HashMap is not atomic: between its first and its last store the  *)
(* HashMap is torn, and a read of a torn HashMap can yield anything.       *)
(***************************************************************************)
Threads == {"t1", "t2"}

Keys == {"k1", "k2"}

Values == {"a", "b"}

\* RwLock::new
new_lock == [readers |-> {}, writer |-> {}]

\* A read() that does not wait for the writer.
read_ignores_writer(l) == TRUE

\* self.0.read(): granted while no writer holds the lock.
can_read(l) == l.writer = {}

\* self.0.write(): granted while nobody holds the lock.
can_write(l) == l.writer = {} /\ l.readers = {}

idle_thread ==
    [pc |-> "idle", op |-> "none", key |-> "k1", value |-> "a",
     result |-> None, expected |-> None, need |-> 0, idx |-> 0]

\* What a read of the HashMap can return: the answer of the HashMap, or
\* anything of the right type when the HashMap is torn.
read_results(op, key) ==
    IF op = "get"
    THEN IF torn THEN {None} \cup {Some(v) : v \in Values}
         ELSE {get(hashmap, key)}
    ELSE IF torn THEN 0..Cardinality(Keys)
         ELSE {len(hashmap)}

MapInit ==
    /\ hashmap = {}
    /\ torn = FALSE
    /\ lock = new_lock
    /\ th = [t \in Threads |-> idle_thread]
    /\ hist = [k \in Keys |-> << >>]
    /\ done_idx = [k \in Keys |-> 0]
    /\ calls = 0
    /\ grids = {} /\ stack = << >> /\ returned = << >> /\ searches = 0
    /\ start_graph = empty(0) /\ current = new(empty(0)) /\ moved = << >>
    /\ vertices_arg = << >> /\ graph_arg = empty(0)
    /\ with_colors_called = FALSE
    /\ made = None /\ out = no_output
    /\ dg = empty(0) /\ flags = {} /\ dg_op = no_call /\ mutations = 0
    /\ play = new(empty(0)) /\ origin = new(empty(0)) /\ plies = 0 /\ ply = no_ply

\* A thread calls get, insert, len or clear.
Invoke(t, op, key, value) ==
    /\ th[t].pc = "idle"
    /\ calls < MaxCalls
    /\ calls' = calls + 1
    /\ th' = [th EXCEPT ![t] =
                 [pc |-> "lock", op |-> op, key |-> key, value |-> value,
                  result |-> None, expected |-> None,
                  need |-> IF op = "get" THEN done_idx[key] ELSE 0, idx |-> 0]]
    /\ UNCHANGED <<hashmap, torn, lock, hist, done_idx, search_vars, game_vars, position_vars, digraph_vars, play_vars>>

\* self.0.read().unwrap() of get and len.
AcquireRead(t) ==
    /\ th[t].pc = "lock"
    /\ th[t].op \in {"get", "len"}
    /\ can_read(lock)
    /\ lock' = [lock EXCEPT !.readers = @ \cup {t}]
    /\ th' = [th EXCEPT ![t].pc = "locked"]
    /\ UNCHANGED <<hashmap, torn, hist, done_idx, calls, search_vars, game_vars, position_vars, digraph_vars, play_vars>>

\* self.0.write().unwrap() of insert and clear.
AcquireWrite(t) ==
    /\ th[t].pc = "lock"
    /\ th[t].op \in {"insert", "clear"}
    /\ can_write(lock)
    /\ lock' = [lock EXCEPT !.writer = {t}]
    /\ th' = [th EXCEPT ![t].pc = "locked"]
    /\ UNCHANGED <<hashmap, torn, hist, done_idx, calls, search_vars, game_vars, position_vars, digraph_vars, play_vars>>

\* .get(key).cloned() or .len() under the read guard, which is then dropped.
Read(t) ==
    /\ th[t].pc = "locked"
    /\ th[t].op \in {"get", "len"}
    /\ \E r \in read_results(th[t].op, th[t].key) :
           th' = [th EXCEPT ![t].pc = "ret",
                            ![t].result = r,
                            ![t].expected = IF th[t].op = "get"
                                            THEN get(hashmap, th[t].key)
                                            ELSE len(hashmap)]
    /\ lock' = [lock EXCEPT !.readers = @ \ {t}]
    /\ UNCHANGED <<hashmap, torn, hist, done_idx, calls, search_vars, game_vars, position_vars, digraph_vars, play_vars>>

\* The first store of cache.insert(key, value) or cache.clear().
BeginWrite(t) ==
    /\ th[t].pc = "locked"
    /\ th[t].op \in {"insert", "clear"}
    /\ torn' = TRUE
    /\ th' = [th EXCEPT ![t].pc = "writing"]
    /\ UNCHANGED <<hashmap, lock, hist, done_idx, calls, search_vars, game_vars, position_vars, digraph_vars, play_vars>>

\* The last store of cache.insert(key, value); the write guard is dropped.
EndInsert(t) ==
    /\ th[t].pc = "writing"
    /\ th[t].op = "insert"
    /\ hashmap' = insert(hashmap, th[t].key, th[t].value)
    /\ torn' = FALSE
    /\ hist' = [hist EXCEPT ![th[t].key] = Append(@, th[t].value)]
    /\ th' = [th EXCEPT ![t].pc = "ret", ![t].idx = Len(hist[th[t].key]) + 1]
    /\ lock' = [lock EXCEPT !.writer = {}]
    /\ UNCHANGED <<done_idx, calls, search_vars, game_vars, position_vars, digraph_vars, play_vars>>

\* The last store of cache.clear(); the write guard is dropped.  The inserts
\* made before it no longer oblige any get.
EndClear(t) ==
    /\ th[t].pc = "writing"
    /\ th[t].op = "clear"
    /\ hashmap' = clear(hashmap)
    /\ torn' = FALSE
    /\ hist' = [k \in Keys |-> << >>]
    /\ done_idx' = [k \in Keys |-> 0]
    /\ th' = [u \in Threads |->
                 IF u = t THEN [th[u] EXCEPT !.pc = "ret"]
                 ELSE [th[u] EXCEPT !.need = 0, !.idx = 0]]
    /\ lock' = [lock EXCEPT !.writer = {}]
    /\ UNCHANGED <<calls, search_vars, game_vars, position_vars, digraph_vars, play_vars>>

\* The call returns to its caller.
Finish(t) ==
    /\ th[t].pc = "ret"
    /\ done_idx' = IF th[t].op = "insert" /\ th[t].idx > done_idx[th[t].key]
                   THEN [done_idx EXCEPT ![th[t].key] = th[t].idx]
                   ELSE done_idx
    /\ th' = [th EXCEPT ![t] = idle_thread]
    /\ UNCHANGED <<hashmap, torn, lock, hist, calls, search_vars, game_vars, position_vars, digraph_vars, play_vars>>

MapNext ==
    \E t \in Threads :
        \/ \E key \in Keys : Invoke(t, "get", key, "a")
        \/ \E key \in Keys, value \in Values : Invoke(t, "insert", key, value)
        \/ Invoke(t, "len", "k1", "a")
        \/ Invoke(t, "clear", "k1", "a")
        \/ AcquireRead(t)
        \/ AcquireWrite(t)
        \/ Read(t)
        \/ BeginWrite(t)
        \/ EndInsert(t)
        \/ EndClear(t)
        \/ Finish(t)

(***************************************************************************)
(* A game of Snort played from Position::new(graph): the current position, *)
(* the graph it started from, and who has moved on each vertex (Empty:     *)
(* nobody, TintLeft: Left, TintRight: Right).                              *)
(***************************************************************************)
\* The undirected graph of the given size with the given set of edges.
RECURSIVE graph_of(_, _)
graph_of(size, edges) ==
    IF edges = {} THEN empty(size)
    ELSE LET e == CHOOSE e \in edges : TRUE
         IN  undirected_connect(graph_of(size, edges \ {e}), e[1], e[2], TRUE)

\* The pairs u < v of vertices of a graph of the given size.
Pairs(size) == {e \in (0..(size - 1)) \X (0..(size - 1)) : e[1] < e[2]}

GameInit ==
    \E size \in 0..MaxVertices : \E edges \in SUBSET Pairs(size) :
        /\ start_graph = graph_of(size, edges)
        /\ current = new(graph_of(size, edges))
        /\ moved = vec(Empty, size)
        /\ grids = {} /\ stack = << >> /\ returned = << >> /\ searches = 0
        /\ hashmap = {} /\ torn = FALSE /\ lock = new_lock
        /\ th = << >> /\ hist = << >> /\ done_idx = << >> /\ calls = 0
        /\ vertices_arg = << >> /\ graph_arg = empty(0)
        /\ with_colors_called = FALSE
        /\ made = None /\ out = no_output
        /\ dg = empty(0) /\ flags = {} /\ dg_op = no_call /\ mutations = 0
        /\ play = new(empty(0)) /\ origin = new(empty(0)) /\ plies = 0 /\ ply = no_ply

\* The player of own_tint_color plays the k-th of the moves offered.
Move(own_tint_color) ==
    \E k \in 1..Len(moves_for(current, own_tint_color)) :
        /\ current' = moves_for(current, own_tint_color)[k]
        /\ moved' = [moved EXCEPT
               ![move_vertices(current, own_tint_color, 0)[k] + 1] = own_tint_color]
        /\ UNCHANGED <<start_graph, search_vars, map_vars, position_vars, digraph_vars, play_vars>>

LeftMove == Move(TintLeft)

RightMove == Move(TintRight)

GameNext == LeftMove \/ RightMove

(***************************************************************************)
(* canonical_form run by several workers on one table.  Each worker keeps  *)
(* the stack of its calls; one step of a worker holds one table operation  *)
(* and the local computation that follows it.                              *)
(***************************************************************************)
Workers == {"w1", "w2"}

\* The frame of a call that found no entry for self: result is 0 and the
\* loop over self.decompositions() is at its first component.
new_frame(self) ==
    [self |-> self, pc |-> "component", comps |-> decompositions(self), i |-> 1,
     result |-> construct_integer_zero, options |-> << >>, nleft |-> 0, j |-> 1,
     vals |-> << >>]

top(w) == stack[w][Len(stack[w])]

set_top(w, frame) == [stack EXCEPT ![w][Len(stack[w])] = frame]

\* The loop with result overwritten by the component's value, not summed.
add_component_overwrite(frame, sub_result) ==
    [frame EXCEPT !.pc = "component", !.result = sub_result, !.i = @ + 1]

\* result = construct_sum(sub_result, result), then the next component.
add_component(frame, sub_result) ==
    [frame EXCEPT !.pc = "component",
                  !.result = construct_sum(sub_result, @),
                  !.i = @ + 1]

\* map() collecting 0 in place of the value the call returned.
take_value_zero(frame, game) ==
    [frame EXCEPT !.vals = Append(@, construct_integer_zero), !.j = @ + 1]

\* map() that never moves on to the next option.
take_value_stuck(frame, game) == frame

\* One option's canonical form has been returned to the caller's map().
take_value(frame, game) ==
    [frame EXCEPT !.vals = Append(@, game), !.j = @ + 1]

\* Moves with every collected value on the left.
moves_of_all_left(frame) == [left |-> frame.vals, right |-> << >>]

\* What is left of a Moves evaluation once all options are valued.
moves_of(frame) ==
    [left |-> SubSeq(frame.vals, 1, frame.nleft),
     right |-> SubSeq(frame.vals, frame.nleft + 1, Len(frame.vals))]

\* The accumulator as it was initialised, not as the loop left it.
final_result_initial(frame) == construct_integer_zero

\* The value canonical_form stores for self and returns.
final_result(frame) == frame.result

\* The positions the callers search.
Roots ==
    { new(empty(0)),
      new(from_edges(2, <<<<0, 1>>>>)),
      new(from_edges(3, <<<<0, 1>>, <<1, 2>>>>)),
      new(from_edges(3, <<<<0, 2>>>>)),
      unwrap(with_colors(<<TintLeft, TintRight, TintLeft>>,
                         undirected_connect(empty(3), 1, 2, TRUE))),
      unwrap(with_colors(<<Taken, Taken>>, empty(2))),
      unwrap(with_colors(<<Empty, Taken, Empty>>,
                         from_edges(3, <<<<0, 1>>, <<1, 2>>>>))) }

SearchInit ==
    /\ grids = {}
    /\ stack = [w \in Workers |-> << >>]
    /\ returned = [w \in Workers |-> None]
    /\ searches = 0
    /\ hashmap = {} /\ torn = FALSE /\ lock = new_lock
    /\ th = [t \in Threads |-> idle_thread]
    /\ hist = [k \in Keys |-> << >>] /\ done_idx = [k \in Keys |-> 0] /\ calls = 0
    /\ start_graph = empty(0) /\ current = new(empty(0)) /\ moved = << >>
    /\ vertices_arg = << >> /\ graph_arg = empty(0)
    /\ with_colors_called = FALSE
    /\ made = None /\ out = no_output
    /\ dg = empty(0) /\ flags = {} /\ dg_op = no_call /\ mutations = 0
    /\ play = new(empty(0)) /\ origin = new(empty(0)) /\ plies = 0 /\ ply = no_ply

\* A caller starts canonical_form(self, cache) on worker w: the first lookup.
Call(w, self) ==
    /\ stack[w] = << >>
    /\ searches < MaxSearches
    /\ searches' = searches + 1
    /\ LET id == get(grids, self)
       IN  IF id # None
           THEN /\ returned' = [returned EXCEPT
                       ![w] = Some([position |-> self, game |-> unwrap(id), hit |-> TRUE])]
                /\ UNCHANGED stack
           ELSE /\ stack' = [stack EXCEPT ![w] = <<new_frame(self)>>]
                /\ UNCHANGED returned
    /\ UNCHANGED <<grids, map_vars, game_vars, position_vars, digraph_vars, play_vars>>

\* The lookup of the next component, and on a miss the generation of its options.
Component(w) ==
    /\ stack[w] # << >>
    /\ top(w).pc = "component"
    /\ top(w).i <= Len(top(w).comps)
    /\ LET position == top(w).comps[top(w).i]
           sub_result == get(grids, position)
       IN  IF sub_result # None
           THEN stack' = set_top(w, add_component(top(w), unwrap(sub_result)))
           ELSE stack' = set_top(w,
                    [top(w) EXCEPT
                        !.pc = "options",
                        !.options = left_moves(position) \o right_moves(position),
                        !.nleft = Len(left_moves(position)),
                        !.j = 1,
                        !.vals = << >>])
    /\ UNCHANGED <<grids, returned, searches, map_vars, game_vars, position_vars, digraph_vars, play_vars>>

\* o.canonical_form(cache) for the next option o: its first lookup.
Option(w) ==
    /\ stack[w] # << >>
    /\ top(w).pc = "options"
    /\ top(w).j <= Len(top(w).options)
    /\ LET o == top(w).options[top(w).j]
           id == get(grids, o)
       IN  IF id # None
           THEN /\ stack' = set_top(w, take_value(top(w), unwrap(id)))
                /\ returned' = [returned EXCEPT
                       ![w] = Some([position |-> o, game |-> unwrap(id), hit |-> TRUE])]
           ELSE /\ stack' = [stack EXCEPT ![w] = Append(@, new_frame(o))]
                /\ UNCHANGED returned
    /\ UNCHANGED <<grids, searches, map_vars, game_vars, position_vars, digraph_vars, play_vars>>

\* construct_from_moves, grids_insert(position, canonical_form), construct_sum.
Construct(w) ==
    /\ stack[w] # << >>
    /\ top(w).pc = "options"
    /\ top(w).j > Len(top(w).options)
    /\ LET position == top(w).comps[top(w).i]
           moves == moves_of(top(w))
           canonical_form == construct_from_moves(moves.left, moves.right)
       IN  /\ grids' = insert(grids, position, canonical_form)
           /\ stack' = set_top(w, add_component(top(w), canonical_form))
    /\ UNCHANGED <<returned, searches, map_vars, game_vars, position_vars, digraph_vars, play_vars>>

\* The return without the insert of self.
Return_no_insert(w) ==
    /\ stack[w] # << >>
    /\ top(w).pc = "component"
    /\ top(w).i > Len(top(w).comps)
    /\ LET self == top(w).self
           result == final_result(top(w))
           depth == Len(stack[w])
       IN  /\ stack' = [stack EXCEPT
                  ![w] = IF depth = 1 THEN << >>
                         ELSE [SubSeq(@, 1, depth - 1) EXCEPT
                                  ![depth - 1] = take_value(@, result)]]
           /\ returned' = [returned EXCEPT
                  ![w] = Some([position |-> self, game |-> result, hit |-> FALSE])]
    /\ UNCHANGED <<grids, searches, map_vars, game_vars, position_vars, digraph_vars, play_vars>>

\* grids_insert(self.clone(), result) and the return to the caller.
Return(w) ==
    /\ stack[w] # << >>
    /\ top(w).pc = "component"
    /\ top(w).i > Len(top(w).comps)
    /\ LET self == top(w).self
           result == final_result(top(w))
           depth == Len(stack[w])
       IN  /\ grids' = insert(grids, self, result)
           /\ stack' = [stack EXCEPT
                  ![w] = IF depth = 1 THEN << >>
                         ELSE [SubSeq(@, 1, depth - 1) EXCEPT
                                  ![depth - 1] = take_value(@, result)]]
           /\ returned' = [returned EXCEPT
                  ![w] = Some([position |-> self, game |-> result, hit |-> FALSE])]
    /\ UNCHANGED <<searches, map_vars, game_vars, position_vars, digraph_vars, play_vars>>

Step(w) ==
    \/ \E self \in Roots : Call(w, self)
    \/ Component(w)
    \/ Option(w)
    \/ Construct(w)
    \/ Return(w)

SearchNext == \E w \in Workers : Step(w)

(***************************************************************************)
(* canonical_form as one sequential call: the value it returns and the     *)
(* table it leaves.                                                        *)
(***************************************************************************)
RECURSIVE canonical_form(_, _)
RECURSIVE options_map(_, _, _, _)
RECURSIVE components_loop(_, _, _, _)

\* options.iter().map(|o| o.canonical_form(cache)).collect()
options_map(options, j, vals, cache) ==
    IF j > Len(options) THEN [vals |-> vals, cache |-> cache]
    ELSE LET called == canonical_form(options[j], cache)
         IN  options_map(options, j + 1, Append(vals, called.game), called.cache)

\* The loop left before its first component.
components_loop_skipped(comps, i, result, cache) == [game |-> result, cache |-> cache]

\* for position in self.decompositions() { ... }
components_loop(comps, i, result, cache) ==
    IF i > Len(comps) THEN [game |-> result, cache |-> cache]
    ELSE LET position == comps[i]
             sub_result == get(cache, position)
         IN  IF sub_result # None
             THEN components_loop(comps, i + 1,
                                  construct_sum(unwrap(sub_result), result), cache)
             ELSE LET left == options_map(left_moves(position), 1, << >>, cache)
                      right == options_map(right_moves(position), 1, << >>, left.cache)
                      canonical == construct_from_moves(left.vals, right.vals)
                  IN  components_loop(comps, i + 1,
                                      construct_sum(canonical, result),
                                      insert(right.cache, position, canonical))

canonical_form(self, cache) ==
    LET id == get(cache, self)
    IN  IF id # None THEN [game |-> unwrap(id), cache |-> cache]
        ELSE LET summed == components_loop(decompositions(self), 1,
                                           construct_integer_zero, cache)
             IN  [game |-> summed.game,
                  cache |-> insert(summed.cache, self, summed.game)]

\* Every position a search of the roots can meet: the roots, their
\* components, and the options of those.
Range(seq) == {seq[k] : k \in DOMAIN seq}

RECURSIVE Met(_)
Met(positions) ==
    LET comps == UNION {Range(decompositions(p)) : p \in positions}
        more == positions \cup comps
                  \cup UNION {Range(left_moves(c)) \cup Range(right_moves(c)) : c \in comps}
    IN  IF more = positions THEN positions ELSE Met(more)

Positions == Met(Roots)

\* The value a search of position with an empty table returns.
fresh_value == [position \in Positions |-> canonical_form(position, {}).game]

(***************************************************************************)
(* The calls on one position: with_colors on a list of colours and a graph, *)
(* then left_moves, right_moves, decompositions and canonical_form (with an *)
(* empty table) on the position it returned.                               *)
(***************************************************************************)
\* The lists of n colours.
RECURSIVE colorings(_)
colorings(n) ==
    IF n = 0 THEN {<< >>}
    ELSE {Append(colors, color) : colors \in colorings(n - 1), color \in VertexColor}

PositionInit ==
    \E n \in 0..MaxVertices, size \in 0..MaxVertices :
        \E colors \in colorings(n), edges \in SUBSET Pairs(size) :
            /\ vertices_arg = colors
            /\ graph_arg = graph_of(size, edges)
            /\ with_colors_called = FALSE
            /\ made = None /\ out = no_output
            /\ grids = {} /\ stack = << >> /\ returned = << >> /\ searches = 0
            /\ hashmap = {} /\ torn = FALSE /\ lock = new_lock
            /\ th = << >> /\ hist = << >> /\ done_idx = << >> /\ calls = 0
            /\ start_graph = empty(0) /\ current = new(empty(0)) /\ moved = << >>
            /\ dg = empty(0) /\ flags = {} /\ dg_op = no_call /\ mutations = 0
            /\ play = new(empty(0)) /\ origin = new(empty(0)) /\ plies = 0 /\ ply = no_ply

\* Position::with_colors(vertices, graph)
WithColors ==
    /\ ~with_colors_called
    /\ with_colors_called' = TRUE
    /\ made' = with_colors(vertices_arg, graph_arg)
    /\ UNCHANGED <<vertices_arg, graph_arg, out, search_vars, map_vars, game_vars,
                   digraph_vars, play_vars>>

\* position.left_moves()
LeftMoves ==
    /\ made # None
    /\ out' = [op |-> "left_moves", positions |-> left_moves(unwrap(made)),
               game |-> None]
    /\ UNCHANGED <<vertices_arg, graph_arg, with_colors_called, made, search_vars,
                   map_vars, game_vars, digraph_vars, play_vars>>

\* position.right_moves()
RightMoves ==
    /\ made # None
    /\ out' = [op |-> "right_moves", positions |-> right_moves(unwrap(made)),
               game |-> None]
    /\ UNCHANGED <<vertices_arg, graph_arg, with_colors_called, made, search_vars,
                   map_vars, game_vars, digraph_vars, play_vars>>

\* position.decompositions()
Decompositions ==
    /\ made # None
    /\ out' = [op |-> "decompositions", positions |-> decompositions(unwrap(made)),
               game |-> None]
    /\ UNCHANGED <<vertices_arg, graph_arg, with_colors_called, made, search_vars,
                   map_vars, game_vars, digraph_vars, play_vars>>

\* position.canonical_form(&TranspositionTable::new())
CanonicalForm ==
    /\ made # None
    /\ out' = [op |-> "canonical_form", positions |-> << >>,
               game |-> Some(canonical_form(unwrap(made), {}).game)]
    /\ UNCHANGED <<vertices_arg, graph_arg, with_colors_called, made, search_vars,
                   map_vars, game_vars, digraph_vars, play_vars>>

PositionNext ==
    \/ WithColors
    \/ LeftMoves
    \/ RightMoves
    \/ Decompositions
    \/ CanonicalForm

(***************************************************************************)
(* A DirectedGraph under connect, add_vertex and remove_vertex, read by     *)
(* adjacent_to and edges.  flags holds the ordered pairs whose last connect *)
(* had the flag true, renumbered when a vertex is removed.                 *)
(***************************************************************************)
DigraphInit ==
    \E size \in 0..MaxVertices :
        /\ dg = empty(size)
        /\ flags = {}
        /\ dg_op = no_call
        /\ mutations = 0
        /\ grids = {} /\ stack = << >> /\ returned = << >> /\ searches = 0
        /\ hashmap = {} /\ torn = FALSE /\ lock = new_lock
        /\ th = << >> /\ hist = << >> /\ done_idx = << >> /\ calls = 0
        /\ start_graph = empty(0) /\ current = new(empty(0)) /\ moved = << >>
        /\ vertices_arg = << >> /\ graph_arg = empty(0)
        /\ with_colors_called = FALSE
        /\ made = None /\ out = no_output
        /\ play = new(empty(0)) /\ origin = new(empty(0)) /\ plies = 0 /\ ply = no_ply

\* g.connect(out_vertex, in_vertex, c)
Connect(out_vertex, in_vertex, c) ==
    /\ mutations < MaxMutations
    /\ mutations' = mutations + 1
    /\ dg' = connect(dg, out_vertex, in_vertex, c)
    /\ flags' = IF c THEN flags \cup {<<out_vertex, in_vertex>>}
                ELSE flags \ {<<out_vertex, in_vertex>>}
    /\ dg_op' = [no_call EXCEPT !.op = "connect", !.out_vertex = out_vertex,
                                !.in_vertex = in_vertex]
    /\ UNCHANGED <<search_vars, map_vars, game_vars, position_vars, play_vars>>

\* g.add_vertex()
AddVertex ==
    /\ dg.size < MaxVertices
    /\ mutations < MaxMutations
    /\ mutations' = mutations + 1
    /\ dg' = add_vertex(dg)
    /\ flags' = flags
    /\ dg_op' = [no_call EXCEPT !.op = "add_vertex"]
    /\ UNCHANGED <<search_vars, map_vars, game_vars, position_vars, play_vars>>

\* g.remove_vertex(vertex_to_remove)
RemoveVertex(vertex_to_remove) ==
    /\ mutations < MaxMutations
    /\ mutations' = mutations + 1
    /\ dg' = remove_vertex(dg, vertex_to_remove)
    /\ flags' = {<<IF e[1] > vertex_to_remove THEN e[1] - 1 ELSE e[1],
                   IF e[2] > vertex_to_remove THEN e[2] - 1 ELSE e[2]>> :
                    e \in {f \in flags : f[1] # vertex_to_remove
                                         /\ f[2] # vertex_to_remove}}
    /\ dg_op' = [no_call EXCEPT !.op = "remove_vertex", !.out_vertex = vertex_to_remove]
    /\ UNCHANGED <<search_vars, map_vars, game_vars, position_vars, play_vars>>

\* g.adjacent_to(out_vertex).collect()
AdjacentTo(out_vertex) ==
    /\ dg_op' = [no_call EXCEPT !.op = "adjacent_to", !.out_vertex = out_vertex,
                                !.adjacent = adjacent_to(dg, out_vertex)]
    /\ UNCHANGED <<dg, flags, mutations, search_vars, map_vars, game_vars, position_vars, play_vars>>

\* g.edges().collect()
Edges ==
    /\ dg_op' = [no_call EXCEPT !.op = "edges", !.edges = graph_edges(dg)]
    /\ UNCHANGED <<dg, flags, mutations, search_vars, map_vars, game_vars, position_vars, play_vars>>

DigraphNext ==
    \/ \E out_vertex, in_vertex \in 0..(dg.size - 1) : \E c \in BOOLEAN :
           Connect(out_vertex, in_vertex, c)
    \/ AddVertex
    \/ \E vertex_to_remove \in 0..(dg.size - 1) : RemoveVertex(vertex_to_remove)
    \/ \E out_vertex \in 0..(dg.size - 1) : AdjacentTo(out_vertex)
    \/ Edges

(***************************************************************************)
(* A play of Snort: Left and Right move in any order, each move being one  *)
(* of the positions left_moves or right_moves returns; the search also     *)
(* replaces a position by one of the components decompositions returns.    *)
(***************************************************************************)
\* A play from any position with_colors returns.
PlayInit ==
    \E size \in 0..MaxVertices :
        \E colors \in colorings(size), edges \in SUBSET Pairs(size) :
            /\ play = unwrap(with_colors(colors, graph_of(size, edges)))
            /\ origin = unwrap(with_colors(colors, graph_of(size, edges)))
            /\ plies = 0 /\ ply = no_ply
            /\ grids = {} /\ stack = << >> /\ returned = << >> /\ searches = 0
            /\ hashmap = {} /\ torn = FALSE /\ lock = new_lock
            /\ th = << >> /\ hist = << >> /\ done_idx = << >> /\ calls = 0
            /\ start_graph = empty(0) /\ current = new(empty(0)) /\ moved = << >>
            /\ vertices_arg = << >> /\ graph_arg = empty(0)
            /\ with_colors_called = FALSE
            /\ made = None /\ out = no_output
            /\ dg = empty(0) /\ flags = {} /\ dg_op = no_call /\ mutations = 0

\* A play from Position::new(graph).
ReachInit ==
    \E size \in 0..MaxReach : \E edges \in SUBSET Pairs(size) :
        /\ play = new(graph_of(size, edges))
        /\ origin = new(graph_of(size, edges))
        /\ plies = 0 /\ ply = no_ply
        /\ grids = {} /\ stack = << >> /\ returned = << >> /\ searches = 0
        /\ hashmap = {} /\ torn = FALSE /\ lock = new_lock
        /\ th = << >> /\ hist = << >> /\ done_idx = << >> /\ calls = 0
        /\ start_graph = empty(0) /\ current = new(empty(0)) /\ moved = << >>
        /\ vertices_arg = << >> /\ graph_arg = empty(0)
        /\ with_colors_called = FALSE
        /\ made = None /\ out = no_output
        /\ dg = empty(0) /\ flags = {} /\ dg_op = no_call /\ mutations = 0

\* Left plays the k-th of position.left_moves().
LeftPly ==
    \E k \in 1..Len(left_moves(play)) :
        /\ play' = left_moves(play)[k]
        /\ plies' = plies + 1
        /\ ply' = [op |-> "left_moves", k |-> k]
        /\ UNCHANGED <<origin, search_vars, map_vars, game_vars, position_vars,
                       digraph_vars>>

\* Right plays the k-th of position.right_moves().
RightPly ==
    \E k \in 1..Len(right_moves(play)) :
        /\ play' = right_moves(play)[k]
        /\ plies' = plies + 1
        /\ ply' = [op |-> "right_moves", k |-> k]
        /\ UNCHANGED <<origin, search_vars, map_vars, game_vars, position_vars,
                       digraph_vars>>

\* The play goes on in the k-th of position.decompositions().
Decompose ==
    \E k \in 1..Len(decompositions(play)) :
        /\ play' = decompositions(play)[k]
        /\ ply' = [op |-> "decompositions", k |-> k]
        /\ UNCHANGED <<origin, plies, search_vars, map_vars, game_vars, position_vars,
                       digraph_vars>>

PlayNext == LeftPly \/ RightPly

ReachNext == LeftPly \/ RightPly \/ Decompose

(***************************************************************************)
(* The specifications: the searches, the map and the game, each with the   *)
(* state of the other two at rest.  Spec is the searches.                  *)
(***************************************************************************)
Init == SearchInit

Next == SearchNext

Spec == Init /\ [][Next]_vars

SpecMap == MapInit /\ [][MapNext]_vars

\* Tables a search can be handed: the empty one, and one that holds 0 for
\* every position of two vertices, whatever its value.
initial_tables ==
    {{}, {<<p, construct_integer_zero>> : p \in {q \in Positions : Len(q.vertices) = 2}}}

LiveInit ==
    /\ grids \in initial_tables
    /\ stack = [w \in Workers |-> << >>]
    /\ returned = [w \in Workers |-> None]
    /\ searches = 0
    /\ hashmap = {} /\ torn = FALSE /\ lock = new_lock
    /\ th = [t \in Threads |-> idle_thread]
    /\ hist = [k \in Keys |-> << >>] /\ done_idx = [k \in Keys |-> 0] /\ calls = 0
    /\ start_graph = empty(0) /\ current = new(empty(0)) /\ moved = << >>
    /\ vertices_arg = << >> /\ graph_arg = empty(0)
    /\ with_colors_called = FALSE
    /\ made = None /\ out = no_output
    /\ dg = empty(0) /\ flags = {} /\ dg_op = no_call /\ mutations = 0
    /\ play = new(empty(0)) /\ origin = new(empty(0)) /\ plies = 0 /\ ply = no_ply

\* The searches from any of these tables, every worker being scheduled again
\* and again while it has a step to take.
SpecLive == LiveInit /\ [][Next]_vars /\ \A w \in Workers : WF_vars(Step(w))

SpecGame == GameInit /\ [][GameNext]_vars

SpecPosition == PositionInit /\ [][PositionNext]_vars

SpecDigraph == DigraphInit /\ [][DigraphNext]_vars

SpecPlay == PlayInit /\ [][PlayNext]_vars

SpecReach == ReachInit /\ [][ReachNext]_vars

(***************************************************************************)
(* Properties of the search.                                               *)
(***************************************************************************)
\* The number of vertices that are not Taken.
RECURSIVE non_taken(_, _)
non_taken(colors, k) ==
    IF k > Len(colors) THEN 0
    ELSE (IF colors[k] # Taken THEN 1 ELSE 0) + non_taken(colors, k + 1)

\* The disjunctive sum of the fresh values of the components, in the
\* order the loop adds them.
RECURSIVE components_value(_, _, _)
components_value(comps, i, result) ==
    IF i > Len(comps) THEN result
    ELSE components_value(comps, i + 1, construct_sum(fresh_value[comps[i]], result))

\* The key and value a worker is about to insert, if its next step is an insert.
pending_insert(w) ==
    IF stack[w] = << >> THEN None
    ELSE IF top(w).pc = "options" /\ top(w).j > Len(top(w).options)
         THEN Some(<<top(w).comps[top(w).i],
                     construct_from_moves(moves_of(top(w)).left, moves_of(top(w)).right)>>)
    ELSE IF top(w).pc = "component" /\ top(w).i > Len(top(w).comps)
         THEN Some(<<top(w).self, final_result(top(w))>>)
    ELSE None

\* C1: once a key has an entry in the transposition table, every later
\* state holds the same entry: no step of any search changes or removes the
\* value stored for a key.
C1_EntriesNeverChange == [][\A e \in grids : e \in grids']_vars

\* Two workers have each computed and inserted the same position.
C1_Witness ==
    \E w1 \in Workers, w2 \in Workers :
        /\ w1 # w2
        /\ \E r1 \in returned[w1], r2 \in returned[w2] :
               r1.position = r2.position /\ ~r1.hit /\ ~r2.hit

\* C2: whatever the table holds when a call of canonical_form is made, the
\* call returns the value a search of the same position with an empty table
\* returns.
C2_MemoizationEquivalence ==
    \A w \in Workers : \A r \in returned[w] : r.game = fresh_value[r.position]

\* A call has computed a position (no entry for it on entry) on a table that
\* earlier searches had filled with entries of other positions.
C2_Witness ==
    \E w \in Workers : \E r \in returned[w] :
        /\ ~r.hit
        /\ r.position \in Roots
        /\ searches = MaxSearches
        /\ \A v \in Workers : stack[v] = << >>
        /\ \E e \in grids : e[1] \notin Range(decompositions(r.position)) \cup {r.position}
                            /\ non_taken(e[1].vertices, 1) > 1

\* C3: in every interleaving, the value a worker is about to insert is the
\* value of a sequential search of that position, and when another worker
\* has inserted the key since this worker's lookup missed, the stored value is
\* the same, so the late insert changes nothing; two workers that return for
\* the same position return the same value.
C3_RacingWorkersAgree ==
    /\ \A w \in Workers : \A ins \in pending_insert(w) :
           /\ ins[2] = fresh_value[ins[1]]
           /\ get(grids, ins[1]) \subseteq {ins[2]}
    /\ \A w1 \in Workers, w2 \in Workers :
           \A r1 \in returned[w1], r2 \in returned[w2] :
               r1.position = r2.position => r1.game = r2.game

\* A worker whose lookup of a component missed is about to insert it, and the
\* other worker has inserted it in the meantime.
C3_Witness ==
    \E w \in Workers :
        /\ stack[w] # << >>
        /\ top(w).pc = "options"
        /\ top(w).j > Len(top(w).options)
        /\ get(grids, top(w).comps[top(w).i]) # None

\* C5: every entry of the table is the value a search of its key with an
\* empty table returns, at every point of every search.
C5_EntriesAreCanonical == \A e \in grids : e[2] = fresh_value[e[1]]

\* The table holds entries while a search is in the middle of a recursion.
C5_Witness ==
    /\ grids # {}
    /\ \E w \in Workers : Len(stack[w]) >= 2

\* C6: the value a call returns for a position is the disjunctive sum of the
\* values of the components decompositions gives for it, and 0 when there is
\* no component.
C6_SumOfComponents ==
    \A w \in Workers : \A r \in returned[w] :
        /\ r.game = components_value(decompositions(r.position), 1, construct_integer_zero)
        /\ decompositions(r.position) = << >> => r.game = construct_integer_zero

\* A call has returned for a position of two components, and one for a
\* position of none.
C6_Witness ==
    /\ \E w \in Workers : \E r \in returned[w] : Len(decompositions(r.position)) >= 2
    /\ \E w \in Workers : \E r \in returned[w] :
           /\ decompositions(r.position) = << >>
           /\ Len(r.position.vertices) > 0

\* After a step, the value each worker's last call returned is stored for
\* its position, and every component of the position has an entry.
returns_stored(w) ==
    \A r \in returned[w]' :
        /\ get(grids', r.position) = Some(r.game)
        /\ \A k \in DOMAIN decompositions(r.position) :
               get(grids', decompositions(r.position)[k]) # None

\* A step in which a call by w found an entry on entry: a root call that
\* leaves no frame, or an option valued without a frame being pushed.
root_hit(w) ==
    /\ searches' # searches
    /\ stack' = stack
    /\ returned'[w] # None
    /\ (CHOOSE r \in returned'[w] : TRUE).hit
    /\ \A v \in Workers \ {w} : returned'[v] = returned[v]

option_hit(w) ==
    /\ stack[w] # << >>
    /\ Len(stack'[w]) = Len(stack[w])
    /\ top(w).pc = "options"
    /\ stack'[w][Len(stack[w])].pc = "options"
    /\ stack'[w][Len(stack[w])].j = top(w).j + 1

\* On a hit the entry found is what is returned, and the table is unchanged.
hit_returns_entry(w) ==
    (root_hit(w) \/ option_hit(w)) =>
        /\ grids' = grids
        /\ \E r \in returned'[w] : r.hit /\ get(grids, r.position) = Some(r.game)

\* C8: when a call returns v for P the table holds v for P and an entry for
\* every component of P; a call that finds an entry for P returns it and
\* leaves the table unchanged.
C8_ReturnedValueStored ==
    [][\A w \in Workers : returns_stored(w) /\ hit_returns_entry(w)]_vars

\* A root call has returned on a hit, and another after computing.
C8_Witness ==
    \E w1 \in Workers, w2 \in Workers :
        /\ \E r \in returned[w1] : r.hit /\ r.position \in Roots /\ stack[w1] = << >>
        /\ \E r \in returned[w2] : ~r.hit /\ Len(decompositions(r.position)) >= 2

\* The steps a call on self takes at most once its lookup has missed, and
\* the steps the loop takes at most for one component c.
RECURSIVE call_steps(_)
RECURSIVE component_steps(_)
RECURSIVE options_steps(_, _)
options_steps(options, j) ==
    IF j > Len(options) THEN 0
    ELSE 1 + call_steps(options[j]) + options_steps(options, j + 1)

component_steps(c) == 2 + options_steps(left_moves(c) \o right_moves(c), 1)

RECURSIVE components_steps(_, _)
components_steps(comps, i) ==
    IF i > Len(comps) THEN 0
    ELSE component_steps(comps[i]) + components_steps(comps, i + 1)

call_steps(self) == 1 + components_steps(decompositions(self), 1)

steps_of_call == [position \in Positions |-> call_steps(position)]

RECURSIVE steps_of_options(_, _)
steps_of_options(options, j) ==
    IF j > Len(options) THEN 0
    ELSE 1 + steps_of_call[options[j]] + steps_of_options(options, j + 1)

\* The steps a frame has left at most: waiting is TRUE for a frame whose
\* option j is being searched by the frame above it.
steps_left(frame, waiting) ==
    IF frame.pc = "component"
    THEN components_steps(frame.comps, frame.i) + 1
    ELSE steps_of_options(frame.options, IF waiting THEN frame.j + 1 ELSE frame.j)
         + 1 + components_steps(frame.comps, frame.i + 1) + 1

RECURSIVE rank(_, _)
rank(frames, d) ==
    IF d > Len(frames) THEN 0
    ELSE steps_left(frames[d], d < Len(frames)) + rank(frames, d + 1)

\* Each recursive call is on a position with fewer vertices that are not
\* Taken than the component its option came from.
C7_measure ==
    \A w \in Workers : \A d \in 2..Len(stack[w]) :
        non_taken(stack[w][d].self.vertices, 1)
            < non_taken(stack[w][d - 1].comps[stack[w][d - 1].i].vertices, 1)

\* A worker with a call under way has a step to take, which is one table
\* operation that waits for no other worker: its top frame is at a component
\* or past the last, or at an option or past the last.
C7_can_step ==
    \A w \in Workers : \A d \in 1..Len(stack[w]) :
        LET frame == stack[w][d]
        IN  \/ /\ frame.pc = "component"
               /\ d = Len(stack[w])
               /\ frame.i \in 1..(Len(frame.comps) + 1)
            \/ /\ frame.pc = "options"
               /\ frame.i \in 1..Len(frame.comps)
               /\ frame.j \in 1..(Len(frame.options) + 1)
               /\ d < Len(stack[w]) => frame.j <= Len(frame.options)
               /\ Len(frame.vals) = frame.j - 1

\* Every step of a worker with a call under way lowers the number of steps
\* the call has left at most.
C7_rank_falls ==
    \A w \in Workers :
        (stack[w] # << >> /\ <<stack[w], returned[w]>>' # <<stack[w], returned[w]>>) =>
            rank(stack'[w], 1) < rank(stack[w], 1)

\* C7: every call of canonical_form ends, whatever the table holds and
\* whatever the other worker does: each recursive call is on a position with
\* fewer vertices that are not Taken than the component its option came from,
\* a worker with a call under way always has a step to take, and each of its
\* steps lowers a bound on the steps the call has left.
C7_Terminates ==
    /\ []C7_measure
    /\ []C7_can_step
    /\ [][C7_rank_falls]_vars

\* Two workers are both three calls deep on a table that did not start empty.
C7_Witness ==
    /\ \A w \in Workers : Len(stack[w]) >= 3
    /\ \E e \in grids : e[2] # fresh_value[e[1]]

(***************************************************************************)
(* Properties of the map.                                                  *)
(***************************************************************************)
\* C4: a get or len that has read returns what the map held at the moment
\* of its read, which lies between its call and its return; so a get(k)
\* called after an insert for k has returned yields the value of that insert
\* or of a later one, unless a clear took effect in between.
C4_Linearizable ==
    \A t \in Threads :
        (th[t].pc = "ret" /\ th[t].op \in {"get", "len"}) =>
            /\ th[t].result = th[t].expected
            /\ (th[t].op = "get" /\ th[t].need > 0) =>
                   \E j \in th[t].need..Len(hist[th[t].key]) :
                       th[t].result = Some(hist[th[t].key][j])

\* A get called after an insert for its key had returned has read the value
\* of a later insert, made by the other thread while the get was under way.
C4_Witness ==
    \E t \in Threads :
        /\ th[t].pc = "ret"
        /\ th[t].op = "get"
        /\ th[t].need > 0
        /\ Len(hist[th[t].key]) > th[t].need
        /\ th[t].result = Some(hist[th[t].key][Len(hist[th[t].key])])
        /\ th[t].result # Some(hist[th[t].key][th[t].need])

\* The map holds at most one value per key, the last inserted, and as many
\* entries as there are keys inserted since the last clear.
C9_one_value_per_key ==
    /\ \A k \in Keys : Cardinality(get(hashmap, k)) <= 1
    /\ \A k \in Keys : hist[k] # << >> => get(hashmap, k) = Some(hist[k][Len(hist[k])])
    /\ len(hashmap) = Cardinality({k \in Keys : hist[k] # << >>})

\* An insert of an entry the map already holds changes nothing.
C9_same_insert_is_no_op ==
    \A t \in Threads :
        (/\ th[t].pc = "writing"
         /\ th[t].op = "insert"
         /\ th'[t].pc = "ret"
         /\ <<th[t].key, th[t].value>> \in hashmap) =>
            hashmap' = hashmap /\ len(hashmap') = len(hashmap)

\* C9: insert is idempotent and the map holds at most one value per key:
\* inserting an entry that is present leaves the entries and len() as they
\* were, and len() is the number of distinct keys inserted since the last
\* clear.
C9_InsertIdempotent ==
    /\ []C9_one_value_per_key
    /\ [][C9_same_insert_is_no_op]_vars

\* A key has been inserted twice in a row with the same value, while the
\* other key has an entry too.
C9_Witness ==
    \E k \in Keys :
        /\ Len(hist[k]) >= 2
        /\ hist[k][1] = hist[k][2]
        /\ \E k2 \in Keys \ {k} : hist[k2] # << >>
        /\ len(hashmap) = Cardinality(Keys)

(***************************************************************************)
(* Properties of the game.                                                 *)
(***************************************************************************)
opponent(own_tint_color) == IF own_tint_color = TintLeft THEN TintRight ELSE TintLeft

\* The vertices nobody has moved on that have no neighbour, in the graph the
\* game started from, on which the opponent has moved.
allowed(own_tint_color) ==
    {v \in 0..(start_graph.size - 1) :
        /\ moved[v + 1] = Empty
        /\ \A u \in 0..(start_graph.size - 1) :
               are_adjacent(start_graph, v, u) => moved[u + 1] # opponent(own_tint_color)}

\* C10: after any sequence of moves from Position::new(g), the vertices on
\* which a player is offered a move are exactly the vertices nobody has moved
\* on that have no neighbour in g on which the opponent has moved, one move
\* for each.
C10_SnortRule ==
    \A own_tint_color \in {TintLeft, TintRight} :
        /\ Range(move_vertices(current, own_tint_color, 0)) = allowed(own_tint_color)
        /\ Len(moves_for(current, own_tint_color)) = Cardinality(allowed(own_tint_color))

\* Both players have moved; a vertex nobody has moved on is closed to both,
\* another is open to Left alone.
C10_Witness ==
    /\ \E v \in DOMAIN moved : moved[v] = TintLeft
    /\ \E v \in DOMAIN moved : moved[v] = TintRight
    /\ \E v \in DOMAIN moved :
           moved[v] = Empty /\ v - 1 \notin allowed(TintLeft) \cup allowed(TintRight)

(***************************************************************************)
(* Properties of the calls on one position.                                *)
(***************************************************************************)
\* C11: with_colors returns no position exactly when the number of colours
\* differs from the number of vertices of the graph, and otherwise the
\* position of exactly the given colours and graph; every position that
\* left_moves, right_moves and decompositions return is one with_colors
\* accepts, and canonical_form returns a value.
C11_WithColorsSizeCheck ==
    /\ with_colors_called =>
           /\ (made = None) <=> (Len(vertices_arg) # graph_arg.size)
           /\ \A position \in made :
                  position.vertices = vertices_arg /\ position.graph = graph_arg
    /\ \A k \in DOMAIN out.positions :
           with_colors(out.positions[k].vertices, out.positions[k].graph)
               = Some(out.positions[k])
    /\ out.op = "canonical_form" => out.game # None

\* with_colors has refused two colours for a graph of three vertices.
C11_Witness ==
    /\ with_colors_called
    /\ made = None
    /\ Len(vertices_arg) = 2
    /\ graph_arg.size = 3


\* The values 1, * and 1* = 1 + *.
construct_integer_one == Form({construct_integer_zero}, {})

star == Form({construct_integer_zero}, {construct_integer_zero})

one_star == construct_sum(construct_integer_one, star)

\* Two adjacent vertices tinted (TintLeft, TintRight).
path_left_right ==
    [vertices |-> <<TintLeft, TintRight>>, graph |-> from_edges(2, <<<<0, 1>>>>)]

\* Each player has one move on the two tinted vertices, to the given value.
path_left_right_is(game) ==
    made = Some(path_left_right) =>
        /\ out.op = "left_moves" => Len(out.positions) = 1
        /\ out.op = "right_moves" => Len(out.positions) = 1
        /\ out.op = "canonical_form" => out.game = Some(game)

\* C12, as the code has it: on two adjacent vertices tinted (TintLeft,
\* TintRight) left_moves returns one move, right_moves returns one move, and
\* canonical_form is * = {0 | 0}: either move leaves no vertex to move on, so
\* the player who moves first wins.
C12_PathLeftRightIsStar == path_left_right_is(star)

\* C12, as stated: the same position has canonical form 0.
C12_PathLeftRightIsZero == path_left_right_is(construct_integer_zero)

\* canonical_form has been called on the two tinted vertices.
C12_Witness ==
    /\ made = Some(path_left_right)
    /\ out.op = "canonical_form"
    /\ out.game = Some(star)

\* Three mutually adjacent vertices tinted (TintLeft, TintRight, TintLeft).
triangle_left_right_left ==
    [vertices |-> <<TintLeft, TintRight, TintLeft>>,
     graph |-> from_edges(3, <<<<0, 1>>, <<0, 2>>, <<1, 2>>>>)]

\* Left has two moves and Right one on the tinted triangle, of the given value.
triangle_is(game) ==
    made = Some(triangle_left_right_left) =>
        /\ out.op = "left_moves" => Len(out.positions) = 2
        /\ out.op = "right_moves" => Len(out.positions) = 1
        /\ out.op = "canonical_form" => out.game = Some(game)

\* C13, as the code has it: on the triangle tinted (TintLeft, TintRight,
\* TintLeft) left_moves returns two moves, right_moves returns one, and
\* canonical_form is {1 | 0}: a move of Left leaves one vertex tinted for
\* Left, the move of Right leaves nothing.
C13_TriangleIsOneOrZero ==
    triangle_is(Form({construct_integer_one}, {construct_integer_zero}))

\* C13, as stated: the same position has canonical form 1*.
C13_TriangleIsOneStar == triangle_is(one_star)

\* canonical_form has been called on the tinted triangle.
C13_Witness ==
    /\ made = Some(triangle_left_right_left)
    /\ out.op = "canonical_form"
    /\ out.game # Some(one_star)

\* The position of the doc example of canonical_form.
doc_example ==
    [vertices |-> <<TintLeft, TintRight, TintLeft>>,
     graph |-> undirected_connect(empty(3), 1, 2, TRUE)]

\* C14: on three vertices with the one edge 1-2 and colours (TintLeft,
\* TintRight, TintLeft) left_moves returns two moves, right_moves returns
\* one, and canonical_form is 1*, the sum of the value 1 of the component
\* of vertex 0 and the value * of the component of vertices 1 and 2.
C14_DocExampleIsOneStar ==
    made = Some(doc_example) =>
        /\ out.op = "left_moves" => Len(out.positions) = 2
        /\ out.op = "right_moves" => Len(out.positions) = 1
        /\ out.op = "canonical_form" => out.game = Some(one_star)
        /\ out.op = "decompositions" =>
               /\ Len(out.positions) = 2
               /\ Len(out.positions[1].vertices) = 1
               /\ canonical_form(out.positions[1], {}).game = construct_integer_one
               /\ Len(out.positions[2].vertices) = 2
               /\ canonical_form(out.positions[2], {}).game = star

\* canonical_form has been called on the doc example and returned 1*.
C14_Witness ==
    /\ made = Some(doc_example)
    /\ out.op = "canonical_form"
    /\ out.game = Some(one_star)
    /\ one_star = Form({construct_integer_one}, {construct_integer_one})

\* The vertices a path of edges joins to one of seen, and seen itself.
RECURSIVE joined_to(_, _)
joined_to(graph, seen) ==
    LET more == seen \cup {u \in 0..(graph.size - 1) :
                              \E v \in seen : are_adjacent(graph, v, u)}
    IN  IF more = seen THEN seen ELSE joined_to(graph, more)

\* The connected components of the graph that hold a vertex that is not Taken.
live_components(position) ==
    {joined_to(position.graph, {v}) :
        v \in {u \in 0..(position.graph.size - 1) : position.vertices[u + 1] # Taken}}

min_of(S) == CHOOSE x \in S : \A y \in S : x <= y

\* The vertex a component is ordered by: its smallest vertex, or its
\* smallest vertex that is not Taken.
first_vertex(position, component, live_only) ==
    min_of(IF live_only
           THEN {v \in component : position.vertices[v + 1] # Taken}
           ELSE component)

\* The components in the order of their first vertices.
RECURSIVE in_order(_, _, _)
in_order(position, components, live_only) ==
    IF components = {} THEN << >>
    ELSE LET head == CHOOSE c \in components :
                         \A d \in components :
                             first_vertex(position, c, live_only)
                                 <= first_vertex(position, d, live_only)
         IN  <<head>> \o in_order(position, components \ {head}, live_only)

\* The renumberings of a set of vertices: new vertex i - 1 is old vertex r[i].
renumberings(component) ==
    {r \in [1..Cardinality(component) -> component] :
        \A i, j \in DOMAIN r : r[i] = r[j] => i = j}

\* sub is the part of position on the vertices r, renumbered by r: the same
\* colours and exactly the edges between them.
is_part(sub, position, r) ==
    /\ Len(sub.vertices) = Len(r)
    /\ sub.graph.size = Len(r)
    /\ \A i \in DOMAIN r : sub.vertices[i] = position.vertices[r[i] + 1]
    /\ \A i, j \in DOMAIN r :
           are_adjacent(sub.graph, i - 1, j - 1) = are_adjacent(position.graph, r[i], r[j])

\* The positions returned are the components in the given order, one each.
components_listed(position, positions, live_only) ==
    LET components == in_order(position, live_components(position), live_only)
    IN  /\ Len(positions) = Len(components)
        /\ \A k \in DOMAIN positions :
               \E r \in renumberings(components[k]) : is_part(positions[k], position, r)

\* No Taken vertex of the position has an edge.
taken_are_isolated(position) ==
    \A v, u \in 0..(position.graph.size - 1) :
        (position.vertices[v + 1] = Taken) => ~are_adjacent(position.graph, v, u)

\* C15, as the code has it: decompositions returns one sub-position per
\* connected component that holds a vertex that is not Taken, each with the
\* colours of its vertices and exactly the edges between them under a
\* renumbering, listed in the order of their smallest vertex that is not
\* Taken; that is the order of their smallest vertex when no Taken vertex
\* has an edge.
C15_DecompositionsByLiveVertex ==
    \A position \in made :
        out.op = "decompositions" =>
            /\ components_listed(position, out.positions, TRUE)
            /\ taken_are_isolated(position) =>
                   components_listed(position, out.positions, FALSE)

\* C15, as stated: the components are listed in the order of their smallest
\* vertex, for every position.
C15_DecompositionsBySmallestVertex ==
    \A position \in made :
        out.op = "decompositions" => components_listed(position, out.positions, FALSE)

\* decompositions has returned two components, the second of which holds
\* vertex 0, a Taken vertex with an edge.
C15_Witness ==
    /\ out.op = "decompositions"
    /\ Len(out.positions) = 2
    /\ \E position \in made :
           /\ position.vertices[1] = Taken
           /\ Len(out.positions[1].vertices) = 1
           /\ Len(out.positions[2].vertices) = 2
           /\ \E u \in 1..2 : are_adjacent(position.graph, 0, u)

\* The graph joins every vertex to vertex 0 and no vertex is Taken.
connected_and_live(position) ==
    /\ position.graph.size >= 1
    /\ joined_to(position.graph, {0}) = 0..(position.graph.size - 1)
    /\ \A v \in DOMAIN position.vertices : position.vertices[v] # Taken

\* C16, as the code has it: decompositions of a position with a connected
\* graph of at least one vertex and no Taken vertex returns exactly one
\* component, which is the position with its vertices renumbered (vertex 0
\* stays vertex 0); it is the position itself when vertex 0 is adjacent to
\* every other vertex.
C16_ConnectedIsOneRenumberedComponent ==
    \A position \in made :
        (out.op = "decompositions" /\ connected_and_live(position)) =>
            /\ Len(out.positions) = 1
            /\ \E r \in renumberings(0..(position.graph.size - 1)) :
                   r[1] = 0 /\ is_part(out.positions[1], position, r)
            /\ (\A u \in 1..(position.graph.size - 1) : are_adjacent(position.graph, 0, u))
                   => out.positions = <<position>>

\* C16, as stated: the one component is equal to the position itself.
C16_ConnectedIsItself ==
    \A position \in made :
        (out.op = "decompositions" /\ connected_and_live(position)) =>
            out.positions = <<position>>

\* decompositions has returned, for the path 0 - 2 - 1, one component that
\* is not the position.
C16_Witness ==
    /\ out.op = "decompositions"
    /\ \E position \in made :
           /\ connected_and_live(position)
           /\ position.graph = from_edges(3, <<<<0, 2>>, <<1, 2>>>>)
           /\ Len(out.positions) = 1
           /\ out.positions[1].graph = from_edges(3, <<<<0, 1>>, <<1, 2>>>>)

\* The colour of the player whose moves out holds.
mover ==
    IF out.op = "left_moves" THEN TintLeft ELSE TintRight

\* The vertices of the colour Empty or own_tint_color.
open_to(position, own_tint_color) ==
    {v \in 0..(Len(position.vertices) - 1) :
        position.vertices[v + 1] \in {Empty, own_tint_color}}

\* The k-th smallest element of a set of numbers.
RECURSIVE nth_smallest(_, _)
nth_smallest(S, k) ==
    IF k = 1 THEN min_of(S) ELSE nth_smallest(S \ {min_of(S)}, k - 1)

\* C17: left_moves returns one successor per vertex of colour Empty or
\* TintLeft, and right_moves one per vertex of colour Empty or TintRight, in
\* increasing order of the vertex (the k-th successor has the k-th such
\* vertex Taken); with no such vertex there is no move.
C17_OneMovePerOpenVertex ==
    \A position \in made :
        out.op \in {"left_moves", "right_moves"} =>
            /\ Len(out.positions) = Cardinality(open_to(position, mover))
            /\ \A k \in DOMAIN out.positions :
                   out.positions[k].vertices[nth_smallest(open_to(position, mover), k) + 1]
                       = Taken
            /\ open_to(position, mover) = {} => out.positions = << >>

\* left_moves has returned two successors for three vertices of which the
\* first is tinted for Right, and the two differ.
C17_Witness ==
    /\ out.op = "left_moves"
    /\ Len(out.positions) = 2
    /\ out.positions[1] # out.positions[2]
    /\ \E position \in made :
           /\ Len(position.vertices) = 3
           /\ position.vertices[1] = TintRight
           /\ position.graph # empty(3)

\* The vertex has no edge in the graph.
no_edge_at(graph, v) ==
    \A u \in 0..(graph.size - 1) : ~are_adjacent(graph, v, u) /\ ~are_adjacent(graph, u, v)

\* after is what a move of own_tint_color on v makes of before.
moved_on(before, after, own_tint_color, v) ==
    LET vertices == 0..(before.graph.size - 1)
        neighbours == {u \in vertices \ {v} : are_adjacent(before.graph, v, u)}
        cut == {v} \cup {u \in neighbours : after.vertices[u + 1] = Taken}
    IN  /\ after.vertices[v + 1] = Taken
        /\ no_edge_at(after.graph, v)
        /\ \A u \in neighbours :
               IF before.vertices[u + 1] \in {Empty, own_tint_color}
               THEN /\ after.vertices[u + 1] = own_tint_color
                    /\ ~are_adjacent(after.graph, v, u)
               ELSE /\ after.vertices[u + 1] = Taken
                    /\ no_edge_at(after.graph, u)
        /\ \A u \in vertices \ (neighbours \cup {v}) :
               after.vertices[u + 1] = before.vertices[u + 1]
        /\ \A a, b \in vertices :
               are_adjacent(after.graph, a, b) =
                   (are_adjacent(before.graph, a, b) /\ a \notin cut /\ b \notin cut)

\* Every successor out holds is what a move on its vertex makes of the position.
C20_successors ==
    \A position \in made :
        out.op \in {"left_moves", "right_moves"} =>
            \A k \in DOMAIN out.positions :
                moved_on(position, out.positions[k], mover,
                         nth_smallest(open_to(position, mover), k))

square(g) == Len(g.adjacency_matrix) = g.size * g.size

\* The step was add_vertex: one vertex more, the edges kept, none at the new vertex.
added_vertex ==
    (dg_op'.op = "add_vertex" /\ dg' # dg) =>
        /\ dg'.size = dg.size + 1
        /\ square(dg')
        /\ \A u, v \in 0..(dg.size - 1) : are_adjacent(dg', u, v) = are_adjacent(dg, u, v)
        /\ \A u \in 0..dg.size :
               ~are_adjacent(dg', dg.size, u) /\ ~are_adjacent(dg', u, dg.size)

\* The step was remove_vertex(k): one vertex fewer, and the edges between the
\* vertices that remain, those above k one lower.
removed_vertex ==
    (dg_op'.op = "remove_vertex" /\ dg' # dg) =>
        LET k == dg_op'.out_vertex
            old(v) == IF v >= k THEN v + 1 ELSE v
        IN  /\ dg'.size = dg.size - 1
            /\ square(dg')
            /\ \A u, v \in 0..(dg'.size - 1) :
                   are_adjacent(dg', u, v) = are_adjacent(dg, old(u), old(v))

\* C18: add_vertex raises size by one, keeps every edge and gives the new
\* last vertex no edge; remove_vertex(k) lowers size by one and keeps exactly
\* the edges between the remaining vertices, every index above k one lower;
\* add_vertex followed by remove_vertex of the new vertex gives the graph
\* back.
C18_ResizeFrame ==
    /\ [](remove_vertex(add_vertex(dg), dg.size) = dg)
    /\ [][added_vertex /\ removed_vertex]_vars

\* A vertex in the middle of three has been removed from a graph with an
\* edge between the other two and an edge at the vertex removed.
C18_Witness ==
    /\ dg_op.op = "remove_vertex"
    /\ dg_op.out_vertex = 1
    /\ dg.size = 2
    /\ are_adjacent(dg, 0, 1)
    /\ ~are_adjacent(dg, 1, 0)
    /\ flags = {<<0, 1>>}

\* The sequence has no element twice.
no_repeat(seq) == \A i, j \in DOMAIN seq : seq[i] = seq[j] => i = j

\* are_adjacent is the flag of the last connect; adjacent_to and edges
\* returned what are_adjacent says, each element once, adjacent_to in
\* increasing order.
C19_views_agree ==
    /\ \A u, v \in 0..(dg.size - 1) : are_adjacent(dg, u, v) = (<<u, v>> \in flags)
    /\ dg_op.op = "adjacent_to" =>
           /\ Range(dg_op.adjacent)
                  = {v \in 0..(dg.size - 1) : are_adjacent(dg, dg_op.out_vertex, v)}
           /\ \A i, j \in DOMAIN dg_op.adjacent :
                  i < j => dg_op.adjacent[i] < dg_op.adjacent[j]
    /\ dg_op.op = "edges" =>
           /\ Range(dg_op.edges)
                  = {e \in (0..(dg.size - 1)) \X (0..(dg.size - 1)) :
                        are_adjacent(dg, e[1], e[2])}
           /\ no_repeat(dg_op.edges)

\* The step was connect(u, v, _): no other ordered pair has changed.
connect_changes_one_pair ==
    (dg_op'.op = "connect" /\ dg' # dg) =>
        /\ dg'.size = dg.size
        /\ \A u, v \in 0..(dg.size - 1) :
               <<u, v>> # <<dg_op'.out_vertex, dg_op'.in_vertex>> =>
                   are_adjacent(dg', u, v) = are_adjacent(dg, u, v)

\* C19: are_adjacent(u, v) is the flag of the last connect(u, v, _), false
\* if there was none; connect(u, v, _) changes no other ordered pair, (v, u)
\* included; adjacent_to(u) yields exactly the v with are_adjacent(u, v),
\* each once in increasing order; edges() yields exactly the pairs (u, v)
\* with are_adjacent(u, v), each once.
C19_AdjacencyViewsAgree ==
    /\ []C19_views_agree
    /\ [][connect_changes_one_pair]_vars

\* edges() has returned the four edges of the graph of the tests.
C19_Witness ==
    /\ dg_op.op = "edges"
    /\ dg.size = 3
    /\ dg_op.edges = <<<<1, 0>>, <<2, 0>>, <<0, 1>>, <<0, 2>>>>
    /\ ~are_adjacent(dg, 1, 2)

(***************************************************************************)
(* Properties of the play.                                                 *)
(***************************************************************************)
\* The number of Taken vertices of a position.
taken_count(position) ==
    Len(position.vertices) - non_taken(position.vertices, 1)

\* The ordered pairs of vertices a graph holds as adjacent.
edge_set(graph) ==
    {e \in (0..(graph.size - 1)) \X (0..(graph.size - 1)) :
        are_adjacent(graph, e[1], e[2])}

\* Neither player has a move.
ended(position) ==
    left_moves(position) = << >> /\ right_moves(position) = << >>

\* The moves made and the vertices still not Taken never exceed the vertices
\* not Taken at the start, and a play of that many moves has ended.
C21_at_most_n ==
    /\ plies + non_taken(play.vertices, 1) <= non_taken(origin.vertices, 1)
    /\ (plies = non_taken(origin.vertices, 1)) => ended(play)

\* A move takes at least one more vertex and adds no edge.
C21_move_takes ==
    /\ taken_count(play') > taken_count(play)
    /\ edge_set(play'.graph) \subseteq edge_set(play.graph)

\* C21: Snort is a short game.  Every left or right move strictly increases
\* the number of Taken vertices and never adds an edge, so from a position
\* with n vertices that are not Taken every sequence of moves, in any order
\* of the two players, has at most n moves, and after n moves neither
\* player can move.
C21_ShortGame ==
    /\ []C21_at_most_n
    /\ [][C21_move_takes]_vars

\* A play from three vertices that are not Taken, two of them joined by an
\* edge, in which both players moved: it took all three moves and has ended.
C21_Witness ==
    /\ non_taken(origin.vertices, 1) = 3
    /\ edge_set(origin.graph) # {}
    /\ plies = 3
    /\ ply.op = "right_moves"
    /\ \E v \in 1..3 : origin.vertices[v] = TintLeft
    /\ ended(play)

\* The colour with TintLeft and TintRight exchanged.
exchange(color) ==
    IF color = TintLeft THEN TintRight
    ELSE IF color = TintRight THEN TintLeft
    ELSE color

\* The colours of a list, each exchanged.
RECURSIVE exchange_colors(_, _)
exchange_colors(colors, k) ==
    IF k > Len(colors) THEN << >>
    ELSE <<exchange(colors[k])>> \o exchange_colors(colors, k + 1)

\* The position with TintLeft and TintRight exchanged on every vertex.
exchanged(position) ==
    [position EXCEPT !.vertices = exchange_colors(@, 1)]

\* The positions of a list, each exchanged, in the order of the list.
RECURSIVE exchange_all(_, _)
exchange_all(positions, k) ==
    IF k > Len(positions) THEN << >>
    ELSE <<exchanged(positions[k])>> \o exchange_all(positions, k + 1)

\* The moves of each player from the exchanged position are the moves of the
\* other player from the position, exchanged, in the same order.
C22_lists_exchange ==
    /\ left_moves(exchanged(play)) = exchange_all(right_moves(play), 1)
    /\ right_moves(exchanged(play)) = exchange_all(left_moves(play), 1)

\* The move a player has just made is, exchanged, the move of the same rank
\* of the other player from the exchanged position.
C22_step_exchanges ==
    /\ (ply'.op = "left_moves") =>
           exchanged(play') = right_moves(exchanged(play))[ply'.k]
    /\ (ply'.op = "right_moves") =>
           exchanged(play') = left_moves(exchanged(play))[ply'.k]

\* C22: Left and Right are treated symmetrically.  Exchanging TintLeft and
\* TintRight on every vertex of a position exchanges the players: the left
\* moves of the exchanged position are exactly the right moves of the
\* position with the two tints exchanged, in the same order, and the right
\* moves of the exchanged position are the left moves of the position,
\* exchanged.
C22_PlayersExchange ==
    /\ []C22_lists_exchange
    /\ [][C22_step_exchanges]_vars

\* Left has moved once, tinting an Empty neighbour, to a position with a
\* vertex of each tint where each player has a move, the two have different
\* moves and the exchange changes the position.
C22_Witness ==
    /\ ply.op = "left_moves"
    /\ plies = 1
    /\ Len(play.vertices) = 3
    /\ \E u, v \in 0..2 :
           /\ origin.vertices[u + 1] = Empty
           /\ play.vertices[u + 1] = TintLeft
           /\ play.vertices[v + 1] = TintRight
    /\ left_moves(play) # right_moves(play)
    /\ left_moves(play) # << >>
    /\ right_moves(play) # << >>
    /\ exchanged(play) # play

\* C23: in every position reachable from Position::new(g) by any sequence
\* of left moves, right moves and decompositions, the number of colours
\* equals the number of vertices of the graph and every Taken vertex has no
\* incident edge; hence no component decompositions returns for such a
\* position contains a Taken vertex.
C23_TakenVerticesAreIsolated ==
    /\ Len(play.vertices) = play.graph.size
    /\ \A v \in 0..(play.graph.size - 1) :
           (play.vertices[v + 1] = Taken) => no_edge_at(play.graph, v)
    /\ LET components == decompositions(play)
       IN  \A k \in 1..Len(components) :
               \A i \in 1..Len(components[k].vertices) :
                   components[k].vertices[i] # Taken

\* After a move of each player a vertex nobody moved on is Taken, having
\* been tinted by both, and the position still has a component; the graph
\* the play started from joined its four vertices.
C23_Witness ==
    /\ plies = 2
    /\ taken_count(play) = 3
    /\ Len(play.vertices) = 4
    /\ decompositions(play) # << >>
    /\ \A v \in 0..3 : ~no_edge_at(origin.graph, v)

====
